---- MODULE Spec2Model ----
(***************************************************************************)
(* The GURT/1.0.0 client framing of portal-co/yonet: the BufferedReader    *)
(* (event-driven over a Node Duplex, pull-based over a web ReadableStream), *)
(* the GurtClient's transport hot-swap and the ResponseReader built on it.  *)
(* Bytes are their ASCII codes; a transport is the byte sequence its peer   *)
(* sends, cut into chunks by the transport as it pleases.                   *)
(***************************************************************************)
EXTENDS Integers, Sequences, FiniteSets

VARIABLES
    impl,       \* "node": packages/yo-gurt/index.ts, "web": the ReadableStream port
    wire,       \* wire[t]: the bytes the peer of transport t sends, in order
    sent,       \* sent[t]: how many of them the transport has handed to its reader
    ended,      \* ended[t]: socket.readableEnded (node) / BufferedReader.#done (web)
    failed,     \* failed[t]: the read side of transport t has reported an error
    buf,        \* buf[t]: the pending buffer of the BufferedReader bound to transport t
    cur,        \* GurtClient.reader / GurtClient.socket: the transport currently bound
    rrs,        \* the readers for which responseReader() has returned a ResponseReader
    op,         \* the read that is suspended, if any
    last,       \* the outcome of the read that completed in the step just taken, if any
    consumed,   \* consumed[t]: every byte reader t has returned so far (history)
    phase,      \* phase[t]: where the caller's in-order reading of the response stands (history)
    body,       \* body[t]: the bytes body reads returned once the header block had ended (history)
    wq,         \* wq[t]: the chunks transport t has accepted and not yet flushed, in order
    wrote,      \* wrote[t]: the bytes transport t has flushed since the writing call in hand began
    wfailed,    \* wfailed[t]: the write side of transport t has reported an error
    wop,        \* the writing call (frame method or body write) that is suspended, if any
    wlast,      \* the outcome of the writing call that settled in the step just taken, if any
    shaken,     \* shaken[t]: a handshake frame has been written to transport t in full (history)
    bw          \* the transport the RequestBodyWriter returned last is bound to, 0 if none

\* the state of the writing side
writerVars == <<wq, wrote, wfailed, wop, wlast, shaken, bw>>

vars == <<impl, wire, sent, ended, failed, buf, cur, rrs, op, last, consumed, phase, body,
          writerVars>>

----------------------------------------------------------------------------
(* Bounds of the model *)

\* longest byte sequence drawn over the small alphabet
MaxStream == 3
\* largest caller buffer handed to readBody / readBodyExact
MaxN == 3
\* how often the transport is replaced
MaxSwaps == 1
\* the configured maximum length of an undelimited line, at most MAX_MESSAGE_SIZE;
\* small, so that the streams of the model exceed it
MaxLine == 2

----------------------------------------------------------------------------
(* Program constants *)

CR == 13
LF == 10
SP == 32
COLON == 58
MAX_MESSAGE_SIZE == 10 * 1024 * 1024
\* 'GURT/1.0.0'
GURT_VERSION == <<71, 85, 82, 84, 47, 49, 46, 48, 46, 48>>

Transports == 1..(MaxSwaps + 1)

----------------------------------------------------------------------------
(* Sequences of bytes *)

Min(a, b) == IF a < b THEN a ELSE b

\* Buffer.slice(from, to) / Uint8Array.slice(from, to), 0-based, end exclusive
slice(b, from, to) == SubSeq(b, from + 1, Min(to, Len(b)))

IsPrefix(p, s) == Len(p) <= Len(s) /\ SubSeq(s, 1, Len(p)) = p

\* the index (0-based) of the first CR LF pair of b, or -1
indexOfCRLF(b) ==
    LET hits == {i \in 0..(Len(b) - 2) : b[i + 1] = CR /\ b[i + 2] = LF}
    IN  IF hits = {} THEN -1 ELSE CHOOSE i \in hits : \A j \in hits : i <= j

----------------------------------------------------------------------------
(* BufferedReader: what a read does once its wait is over.  Each operator  *)
(* yields the error thrown ("" for none), the bytes returned and the        *)
(* pending buffer left behind.                                              *)

Outcome(e, o, b) == [err |-> e, out |-> o, buf |-> b]

\* a readExact that drops the bytes it pulled beyond n
readExact_Drop(b, n) ==
    IF Len(b) < n THEN Outcome("Unexpected EOF", <<>>, b)
    ELSE Outcome("", slice(b, 0, n), <<>>)

readExact(b, n) ==
    IF Len(b) < n THEN Outcome("Unexpected EOF", <<>>, b)
    ELSE Outcome("", slice(b, 0, n), slice(b, n, Len(b)))

\* a readUntilCRLF that leaves the LF of the delimiter in the buffer
readUntilCRLF_KeepLF(b) ==
    LET i == indexOfCRLF(b)
    IN  IF i < 0 THEN Outcome("Unexpected EOF", <<>>, b)
        ELSE Outcome("", slice(b, 0, i + 1), slice(b, i + 1, Len(b)))

readUntilCRLF(b) ==
    LET i == indexOfCRLF(b)
    IN  IF i < 0 THEN Outcome("Unexpected EOF", <<>>, b)
        ELSE Outcome("", slice(b, 0, i + 2), slice(b, i + 2, Len(b)))

\* a readAvailable that returns the bytes without taking them out of the buffer
readAvailable_Keep(b, n) ==
    Outcome("", slice(b, 0, Min(n, Len(b))), b)

readAvailable(b, n) ==
    LET take == Min(n, Len(b))
    IN  Outcome("", slice(b, 0, take), slice(b, take, Len(b)))

----------------------------------------------------------------------------
(* BufferedReader: how long a read waits.  The node reader waits on the     *)
(* predicate it hands to waitFor, which push() has re-evaluated whenever a  *)
(* 'data' or 'end' event arrives; the web reader pulls while its loop       *)
(* condition holds.                                                          *)

\* a readExact that stops waiting as soon as any byte is pending
nodeReady_AnyByte(kind, b, n, e) ==
    CASE kind = "readExact"     -> Len(b) > 0 \/ e
      [] kind = "readUntilCRLF" -> indexOfCRLF(b) >= 0 \/ (Len(b) = 0 /\ e)
      [] kind = "readAvailable" -> Len(b) > 0 \/ e

\* index.ts: the predicate of waitFor; b the buffer, e socket.readableEnded
nodeReady(kind, b, n, e) ==
    CASE kind = "readExact"     -> Len(b) >= n \/ (Len(b) = 0 /\ e)
      [] kind = "readUntilCRLF" -> indexOfCRLF(b) >= 0 \/ (Len(b) = 0 /\ e)
      [] kind = "readAvailable" -> Len(b) > 0 \/ e

\* the web port: the condition under which the read calls #pullOne; d is #done
webPulls(kind, b, n, d) ==
    CASE kind = "readExact"     -> Len(b) < n /\ ~d
      [] kind = "readUntilCRLF" -> indexOfCRLF(b) < 0 /\ ~d
      [] kind = "readAvailable" -> Len(b) = 0 /\ ~d

\* reads that throw the pending bytes away when they fail
finish_DiscardOnEOF(kind, b, n) ==
    LET o == CASE kind = "readExact"     -> readExact(b, n)
               [] kind = "readUntilCRLF" -> readUntilCRLF(b)
               [] kind = "readAvailable" -> readAvailable(b, n)
    IN  IF o.err # "" THEN Outcome(o.err, <<>>, <<>>) ELSE o

\* what the read does with the buffer once it no longer waits
finish(kind, b, n) ==
    CASE kind = "readExact"     -> readExact(b, n)
      [] kind = "readUntilCRLF" -> readUntilCRLF(b)
      [] kind = "readAvailable" -> readAvailable(b, n)

----------------------------------------------------------------------------
(* ResponseReader: the text of a line and its parts *)

\* Buffer.toString('ascii'): the high bit of every byte is dropped
ascii(b) == [i \in 1..Len(b) |-> b[i] % 128]

\* whether c is a continuation byte of UTF-8
IsCont(c) == c >= 128 /\ c <= 191

\* the UTF-8 decoder of TextDecoder on sequences of one to three bytes: a byte that
\* begins no well-formed sequence, and a sequence cut short, become U+FFFD (the
\* inputs of the model hold no lead byte of a four-byte sequence)
RECURSIVE utf8Decode(_)
utf8Decode(b) ==
    IF b = <<>> THEN <<>>
    ELSE LET c    == b[1]
             has2 == Len(b) >= 2 /\ IsCont(b[2])
             ok2  == has2 /\ (c = 224 => b[2] >= 160) /\ (c = 237 => b[2] <= 159)
             has3 == ok2 /\ Len(b) >= 3 /\ IsCont(b[3])
         IN  IF c < 128 THEN <<c>> \o utf8Decode(Tail(b))
             ELSE IF c >= 194 /\ c <= 223 /\ has2
             THEN <<(c - 192) * 64 + (b[2] - 128)>> \o utf8Decode(SubSeq(b, 3, Len(b)))
             ELSE IF c >= 224 /\ c <= 239 /\ has3
             THEN <<(c - 224) * 4096 + (b[2] - 128) * 64 + (b[3] - 128)>>
                      \o utf8Decode(SubSeq(b, 4, Len(b)))
             ELSE IF c >= 224 /\ c <= 239 /\ ok2
             THEN <<65533>> \o utf8Decode(SubSeq(b, 3, Len(b)))
             ELSE <<65533>> \o utf8Decode(Tail(b))

\* new TextDecoder('utf-8').decode(b): ignoreBOM is false, so a leading U+FEFF is dropped
utf8(b) ==
    LET s == utf8Decode(b)
    IN  IF s # <<>> /\ s[1] = 65279 THEN Tail(s) ELSE s

decode(im, b) == IF im = "node" THEN ascii(b) ELSE utf8(b)

\* the positions (1-based) of byte c in s
Positions(s, c) == {i \in 1..Len(s) : s[i] = c}

First(S) == CHOOSE i \in S : \A j \in S : i <= j

\* line.split(' ')[0]
parts0(s) ==
    LET sp == Positions(s, SP)
    IN  IF sp = {} THEN s ELSE SubSeq(s, 1, First(sp) - 1)

\* whether line.split(' ')[1] is defined
hasParts1(s) == Positions(s, SP) # {}

\* line.split(' ')[1], when defined
parts1(s) ==
    LET sp   == Positions(s, SP)
        a    == First(sp)
        rest == {i \in sp : i > a}
        z    == IF rest = {} THEN Len(s) + 1 ELSE First(rest)
    IN  SubSeq(s, a + 1, z - 1)

\* the white space String.prototype.trim and parseInt skip, within ASCII
IsWhite(c) == c \in {9, 10, 11, 12, 13, 32}

IsDigit(c) == c >= 48 /\ c <= 57

\* the number of white bytes s starts with, of digits it starts with, of white bytes it ends with
RECURSIVE LeadingWhite(_)
LeadingWhite(s) ==
    IF s # <<>> /\ IsWhite(Head(s)) THEN 1 + LeadingWhite(Tail(s)) ELSE 0

RECURSIVE LeadingDigits(_)
LeadingDigits(s) ==
    IF s # <<>> /\ IsDigit(Head(s)) THEN 1 + LeadingDigits(Tail(s)) ELSE 0

RECURSIVE TrailingWhite(_)
TrailingWhite(s) ==
    IF s # <<>> /\ IsWhite(s[Len(s)])
    THEN 1 + TrailingWhite(SubSeq(s, 1, Len(s) - 1)) ELSE 0

RECURSIVE DigitsValue(_)
DigitsValue(s) ==
    IF s = <<>> THEN 0
    ELSE 10 * DigitsValue(SubSeq(s, 1, Len(s) - 1)) + (s[Len(s)] - 48)

\* parseInt(tok, 10): leading white space, an optional sign, the longest run of digits
parseInt(defined, tok) ==
    LET s1     == SubSeq(tok, LeadingWhite(tok) + 1, Len(tok))
        signed == s1 # <<>> /\ Head(s1) \in {43, 45}
        s2     == IF signed THEN Tail(s1) ELSE s1
        d      == LeadingDigits(s2)
        v      == DigitsValue(SubSeq(s2, 1, d))
    IN  IF ~defined \/ d = 0 THEN [nan |-> TRUE, val |-> 0]
        ELSE [nan |-> FALSE, val |-> IF signed /\ Head(s1) = 45 THEN 0 - v ELSE v]

\* String.prototype.trim
trim(s) ==
    LET a == LeadingWhite(s)
    IN  IF a = Len(s) THEN <<>> ELSE SubSeq(s, a + 1, Len(s) - TrailingWhite(s))

\* String.prototype.toLowerCase, within ASCII
toLowerCase(s) == [i \in 1..Len(s) |-> IF s[i] >= 65 /\ s[i] <= 90 THEN s[i] + 32 ELSE s[i]]

\* what a ResponseReader method hands back: the error thrown ("" for none) and the value
Value(nul, st, nm, vl, by) ==
    [null |-> nul, status |-> st, name |-> nm, value |-> vl, bytes |-> by]

NoValue == Value(FALSE, 0, <<>>, <<>>, 0)

\* readStatusLine, after its readUntilCRLF returned o
readStatusLine(im, o) ==
    LET line == decode(im, slice(o, 0, Len(o) - 2))
        code == parseInt(hasParts1(line), IF hasParts1(line) THEN parts1(line) ELSE <<>>)
    IN  IF parts0(line) # GURT_VERSION THEN [err |-> "Invalid protocol", val |-> NoValue]
        ELSE IF code.nan THEN [err |-> "Invalid status code", val |-> NoValue]
        ELSE [err |-> "", val |-> Value(FALSE, code.val, <<>>, <<>>, Len(o))]

\* a readHeader that takes every line of white space for the end of the headers
readHeader_BlankLine(im, o) ==
    LET line == decode(im, slice(o, 0, Len(o) - 2))
        cols == Positions(line, COLON)
        idx  == First(cols)
    IN  IF trim(line) = <<>> THEN [err |-> "", val |-> Value(TRUE, 0, <<>>, <<>>, 0)]
        ELSE IF cols = {} THEN [err |-> "Invalid header", val |-> NoValue]
        ELSE [err |-> "",
              val |-> Value(FALSE, 0, toLowerCase(trim(SubSeq(line, 1, idx - 1))),
                            trim(SubSeq(line, idx + 1, Len(line))), Len(o))]

\* readHeader, after its readUntilCRLF returned o
readHeader(im, o) ==
    LET line == decode(im, slice(o, 0, Len(o) - 2))
        cols == Positions(line, COLON)
        idx  == First(cols)
    IN  IF Len(o) = 2 THEN [err |-> "", val |-> Value(TRUE, 0, <<>>, <<>>, 0)]
        ELSE IF cols = {} THEN [err |-> "Invalid header", val |-> NoValue]
        ELSE [err |-> "",
              val |-> Value(FALSE, 0, toLowerCase(trim(SubSeq(line, 1, idx - 1))),
                            trim(SubSeq(line, idx + 1, Len(line))), Len(o))]

\* the BufferedReader read behind each ResponseReader method
under(kind) ==
    CASE kind = "readStatusLine" -> "readUntilCRLF"
      [] kind = "readHeader"     -> "readUntilCRLF"
      [] kind = "readBody"       -> "readAvailable"
      [] kind = "readBodyExact"  -> "readExact"

----------------------------------------------------------------------------
(* GurtClient: the frames it writes.  A string is the sequence of its code  *)
(* points; each method is the sequence of strings it hands to writeAll, one *)
(* awaited call after the other.                                            *)

\* an optional argument: omitted, or given with the value s
None == [given |-> FALSE, s |-> <<>>]

Some(s) == [given |-> TRUE, s |-> s]

\* TextEncoder.encode / socket.write(string): the UTF-8 bytes of a string of code
\* points below 65536
RECURSIVE encode(_)
encode(s) ==
    IF \A i \in 1..Len(s) : s[i] < 128 THEN s
    ELSE LET c == Head(s)
         IN  (IF c < 128 THEN <<c>>
              ELSE IF c < 2048 THEN <<192 + (c \div 64), 128 + (c % 64)>>
              ELSE <<224 + (c \div 4096), 128 + ((c \div 64) % 64), 128 + (c % 64)>>)
                 \o encode(Tail(s))

\* the decimal digits of a natural number
RECURSIVE digits(_)
digits(n) == IF n < 10 THEN <<48 + n>> ELSE digits(n \div 10) \o <<48 + (n % 10)>>

\* `${contentLength}` for an integer
numberToString(n) == IF n < 0 THEN <<45>> \o digits(0 - n) ELSE digits(n)

\* 'HANDSHAKE'
HANDSHAKE == <<72, 65, 78, 68, 83, 72, 65, 75, 69>>
\* 'host: '
HostColon == <<104, 111, 115, 116, COLON, SP>>
\* 'user-agent: '
UserAgentColon == <<117, 115, 101, 114, 45, 97, 103, 101, 110, 116, COLON, SP>>
\* 'content-type: '
ContentTypeColon == <<99, 111, 110, 116, 101, 110, 116, 45, 116, 121, 112, 101, COLON, SP>>
\* 'content-length: '
ContentLengthColon ==
    <<99, 111, 110, 116, 101, 110, 116, 45, 108, 101, 110, 103, 116, 104, COLON, SP>>
\* 'yo-gurt/0.1'
DefaultUserAgent == <<121, 111, 45, 103, 117, 114, 116, 47, 48, 46, 49>>

\* a handshake that writes the user-agent header before the host header
handshake_AgentFirst(host, userAgent) ==
    << HANDSHAKE \o <<SP, 47, SP>> \o GURT_VERSION \o <<CR, LF>>,
       UserAgentColon \o userAgent \o <<CR, LF>>,
       HostColon \o host \o <<CR, LF>>,
       <<CR, LF>> >>

\* GurtClient.handshake(host, userAgent)
handshake(host, userAgent) ==
    << HANDSHAKE \o <<SP, 47, SP>> \o GURT_VERSION \o <<CR, LF>>,
       HostColon \o host \o <<CR, LF>>,
       UserAgentColon \o userAgent \o <<CR, LF>>,
       <<CR, LF>> >>

\* a requestNoBody that writes an omitted user agent as the empty string
requestNoBody_NoDefault(method, path, host, userAgent) ==
    << method \o <<SP>> \o path \o <<SP>> \o GURT_VERSION \o <<CR, LF>>,
       HostColon \o host \o <<CR, LF>>,
       UserAgentColon \o userAgent.s \o <<CR, LF>>,
       <<CR, LF>> >>

\* GurtClient.requestNoBody(method, path, host, userAgent?)
requestNoBody(method, path, host, userAgent) ==
    LET ua == IF userAgent.given THEN userAgent.s ELSE DefaultUserAgent
    IN  << method \o <<SP>> \o path \o <<SP>> \o GURT_VERSION \o <<CR, LF>>,
           HostColon \o host \o <<CR, LF>>,
           UserAgentColon \o ua \o <<CR, LF>>,
           <<CR, LF>> >>

\* GurtClient.requestWithBody(method, path, host, contentLength, userAgent?, contentType?);
\* `if (contentType)` holds for a string that is given and not empty
requestWithBody(method, path, host, contentLength, userAgent, contentType) ==
    LET ua == IF userAgent.given THEN userAgent.s ELSE DefaultUserAgent
    IN  << method \o <<SP>> \o path \o <<SP>> \o GURT_VERSION \o <<CR, LF>>,
           HostColon \o host \o <<CR, LF>> >>
        \o (IF contentType.given /\ contentType.s # <<>>
            THEN << ContentTypeColon \o contentType.s \o <<CR, LF>> >> ELSE << >>)
        \o << ContentLengthColon \o numberToString(contentLength) \o <<CR, LF>>,
              UserAgentColon \o ua \o <<CR, LF>>,
              <<CR, LF>> >>

\* a writeAll that resolves as soon as socket.write has returned true
writeAllSettles_OnReturn(im, ok, ev) ==
    IF im = "node"
    THEN CASE ev = "returned" -> ok
           [] ev = "callback" -> TRUE
           [] ev = "drain"    -> ~ok
           [] ev = "error"    -> TRUE
    ELSE ev \in {"callback", "error"}

\* GurtClient.writeAll / RequestBodyWriter.write: whether the promise settles when
\* socket.write has returned `ok`, its callback runs (with or without an error) or
\* 'drain' is emitted; the web port awaits the promise of writer.write(chunk)
writeAllSettles(im, ok, ev) ==
    IF im = "node"
    THEN CASE ev = "returned" -> FALSE
           [] ev = "callback" -> TRUE
           [] ev = "drain"    -> ~ok
           [] ev = "error"    -> TRUE
    ELSE ev \in {"callback", "error"}

----------------------------------------------------------------------------
(* The transports' inputs *)

\* CR, LF and 'a'
Alphabet == {CR, LF, 97}

SmallWires == UNION {[1..n -> Alphabet] : n \in 0..MaxStream}

\* what the peer of a transport swapped in later sends: 'x' 'y'
SwapWires == {<<120, 121>>}

CRLF == <<CR, LF>>

\* 'GURT/1.0.0 200 OK' CRLF CRLF 'ab'
RespNoHeaders == GURT_VERSION \o <<SP, 50, 48, 48, SP, 79, 75>> \o CRLF \o CRLF \o <<97, 98>>
\* 'GURT/1.0.0 7' CRLF 'Ab: c:d' CRLF CRLF 'a' CR LF 'b'
RespOneHeader ==
    GURT_VERSION \o <<SP, 55>> \o CRLF \o <<65, 98, COLON, SP, 99, COLON, 100>> \o CRLF
        \o CRLF \o <<97, CR, LF, 98>>
\* 'GURT/1.0.0 7' CRLF CRLF, no body
RespNoBody == GURT_VERSION \o <<SP, 55>> \o CRLF \o CRLF
\* 'GURT/1.0.0 7' CRLF 'ab', the stream ends inside the header block
RespCut == GURT_VERSION \o <<SP, 55>> \o CRLF \o <<97, 98>>

Responses == {RespNoHeaders, RespOneHeader, RespNoBody, RespCut}

\* a status line: GURT_VERSION, then `rest`, then CR LF
StatusLine(rest) == GURT_VERSION \o rest \o CRLF

\* the status lines a peer may send, well-formed and not
StatusLines ==
    { StatusLine(<<SP, 50, 48, 48, SP, 79, 75>>),       \* 'GURT/1.0.0 200 OK'
      StatusLine(<<SP, 50, 48, 48>>),                   \* 'GURT/1.0.0 200'
      CRLF,                                             \* an empty line
      <<71, 85, 82, 84, 47, 49, 46, 48, 46, 49, SP, 50, 48, 48>> \o CRLF,  \* 'GURT/1.0.1 200'
      <<103, 117, 114, 116, 47, 49, 46, 48, 46, 48, SP, 50, 48, 48>> \o CRLF, \* 'gurt/1.0.0 200'
      <<SP>> \o StatusLine(<<SP, 50, 48, 48>>),         \* ' GURT/1.0.0 200'
      StatusLine(<<>>),                                 \* 'GURT/1.0.0'
      StatusLine(<<SP, 97, 98, 99>>),                   \* 'GURT/1.0.0 abc'
      StatusLine(<<SP, SP, 50, 48, 48>>),               \* 'GURT/1.0.0  200'
      StatusLine(<<SP, 45, 49>>),                       \* 'GURT/1.0.0 -1'
      StatusLine(<<SP, 50, 48, 48, 97, 98, 99>>),       \* 'GURT/1.0.0 200abc'
      \* 'GURT/1.0.0 200' with the high bit of the 'G' set
      <<199>> \o Tail(StatusLine(<<SP, 50, 48, 48>>)),
      \* 'GURT/1.0.0 200' behind a byte order mark
      <<239, 187, 191>> \o StatusLine(<<SP, 50, 48, 48>>) }

\* a header line: `text`, then CR LF, then whatever follows it on the stream
HeaderLine(text, after) == text \o CRLF \o after

\* the header lines a peer may send, well-formed and not, and a response without headers
HeaderLines ==
    { \* 'content-type: text/plain; charset=utf-8'
      HeaderLine(<<99, 111, 110, 116, 101, 110, 116, 45, 116, 121, 112, 101, COLON, SP,
                   116, 101, 120, 116, 47, 112, 108, 97, 105, 110, 59, SP,
                   99, 104, 97, 114, 115, 101, 116, 61, 117, 116, 102, 45, 56>>, <<>>),
      \* ' Ab' CR ':' LF 'c:d ': a mixed-case name, white space, a lone CR and a lone LF
      HeaderLine(<<SP, 65, 98, CR, COLON, LF, 99, COLON, 100, SP>>, <<>>),
      HeaderLine(<<COLON>>, <<>>),                      \* ':'
      HeaderLine(<<SP>>, <<>>),                         \* ' '
      HeaderLine(<<97, 98, 99>>, <<120>>),              \* 'abc', then 'x'
      HeaderLine(<<97, 186, 98>>, <<>>),                \* 'a' 0xBA 'b'
      HeaderLine(<<97, 186, COLON, SP, 99>>, <<>>),     \* 'a' 0xBA ': c'
      \* 'GURT/1.0.0 x', then 'y'
      HeaderLine(GURT_VERSION \o <<SP, 120>>, <<121>>),
      RespNoBody }

\* what the caller passes to the frame methods: 'GET', 'POST'; '/api/data';
\* 'h', 'example.com'; '' and 'u'; the body lengths; '' and 't'
Methods == {<<71, 69, 84>>, <<80, 79, 83, 84>>}

Paths == {<<47, 97, 112, 105, 47, 100, 97, 116, 97>>}

Hosts == {<<104>>, <<101, 120, 97, 109, 112, 108, 101, 46, 99, 111, 109>>}

UserAgents == {<<>>, <<117>>}

OptUserAgents == {None} \cup {Some(u) : u \in UserAgents}

ContentLengths == {0, 12}

OptContentTypes == {None, Some(<<>>), Some(<<116>>)}

\* the chunks the caller hands to RequestBodyWriter.write (Buffer / Uint8Array)
BodyData == {<<>>, <<97>>, <<97, 98>>}

Wirings(first) ==
    {w \in [Transports -> first \cup SwapWires] :
        /\ w[1] \in first
        /\ \A t \in Transports : t > 1 => w[t] \in SwapWires}

----------------------------------------------------------------------------
(* State *)

Kinds == {"readStatusLine", "readHeader", "readBody", "readBodyExact"}

\* rd: the reader the read is on; at: the transport bound when it was issued
NoOp == [kind |-> "none", rd |-> 0, n |-> 0, at |-> 0]

\* was: the pending buffer before the step; had: the pending buffer the read cut
\* its result from; out: the bytes it took; err, val: what the method threw or returned
NoLast == [kind |-> "none", rd |-> 0, n |-> 0, at |-> 0, err |-> "", out |-> <<>>,
           was |-> <<>>, had |-> <<>>, val |-> NoValue]

\* the arguments of a writing call
Args(method, path, host, userAgent, contentLength, contentType) ==
    [method |-> method, path |-> path, host |-> host, userAgent |-> userAgent,
     contentLength |-> contentLength, contentType |-> contentType]

NoArgs == Args(<<>>, <<>>, <<>>, None, 0, None)

\* the writing call in hand: its method and arguments, the bytes it has issued, the
\* chunks it has still to issue, the transport of the write it awaits, and what
\* socket.write returned
NoWop == [kind |-> "none", args |-> NoArgs, issued |-> <<>>, segs |-> <<>>, at |-> 0,
          ok |-> TRUE]

\* the writing call that settled: its method and arguments, the error thrown ("" for
\* none), the bytes it issued, the chunks it did not get to, the transport of its
\* last write
NoWlast == [kind |-> "none", args |-> NoArgs, err |-> "", issued |-> <<>>, segs |-> <<>>,
            at |-> 0]

\* the bytes transport t has handed over so far
received(t) == SubSeq(wire[t], 1, sent[t])

InitWith(first) ==
    /\ impl \in {"node", "web"}
    /\ wire \in Wirings(first)
    /\ sent = [t \in Transports |-> 0]
    /\ ended = [t \in Transports |-> FALSE]
    /\ failed = [t \in Transports |-> FALSE]
    /\ buf = [t \in Transports |-> <<>>]
    /\ cur = 1
    /\ rrs = {}
    /\ op = NoOp
    /\ last = NoLast
    /\ consumed = [t \in Transports |-> <<>>]
    /\ phase = [t \in Transports |-> "AwaitingStatusLine"]
    /\ body = [t \in Transports |-> <<>>]
    /\ wq = [t \in Transports |-> <<>>]
    /\ wrote = [t \in Transports |-> <<>>]
    /\ wfailed = [t \in Transports |-> FALSE]
    /\ wop = NoWop
    /\ wlast = NoWlast
    /\ shaken = [t \in Transports |-> FALSE]
    /\ bw = 0

Init == InitWith(SmallWires)

InitResponse == InitWith(Responses)

InitStatus == InitWith(StatusLines)

InitHeader == InitWith(HeaderLines)

\* the peer silent: the writing side alone
InitWrite == InitWith({<<>>})

InitSwap == InitWith({<<97, 98>>, <<97, CR, LF>>})

----------------------------------------------------------------------------
(* Operations *)

\* where the caller's in-order reading stands after a read of `kind` ended with `res`
nextPhase(ph, kind, res) ==
    CASE ph = "AwaitingStatusLine" ->
            IF kind = "readStatusLine" /\ res.err = "" THEN "AwaitingHeaders" ELSE "Abandoned"
      [] ph = "AwaitingHeaders" ->
            IF kind = "readHeader" /\ res.err = ""
            THEN (IF res.val.null THEN "BodyReady" ELSE "AwaitingHeaders")
            ELSE "Abandoned"
      [] ph = "BodyReady" ->
            IF kind \in {"readBody", "readBodyExact"} THEN "BodyReady" ELSE "Abandoned"
      [] OTHER -> "Abandoned"

\* the rest of a ResponseReader method once the BufferedReader read it awaits no
\* longer waits: b is the pending buffer of reader r at that moment
Complete(kind, r, n, at, b) ==
    LET o   == finish(under(kind), b, n)
        res == IF o.err # "" THEN [err |-> o.err, val |-> NoValue]
               ELSE CASE kind = "readStatusLine" -> readStatusLine(impl, o.out)
                      [] kind = "readHeader"     -> readHeader(impl, o.out)
                      [] kind = "readBody"       ->
                            [err |-> "", val |-> Value(FALSE, 0, <<>>, <<>>, Len(o.out))]
                      [] kind = "readBodyExact"  -> [err |-> "", val |-> NoValue]
    IN  /\ buf' = [buf EXCEPT ![r] = o.buf]
        /\ consumed' = [consumed EXCEPT ![r] = @ \o o.out]
        /\ last' = [kind |-> kind, rd |-> r, n |-> n, at |-> at, err |-> res.err,
                    out |-> o.out, was |-> buf[r], had |-> b, val |-> res.val]
        /\ phase' = [phase EXCEPT ![r] = nextPhase(@, kind, res)]
        /\ body' = [body EXCEPT ![r] =
                        IF phase[r] = "BodyReady" /\ kind \in {"readBody", "readBodyExact"}
                        THEN @ \o o.out ELSE @]

\* whether a read of reader r started now would suspend
waits(kind, r, n) ==
    IF impl = "node" THEN ~nodeReady(under(kind), buf[r], n, ended[r])
    ELSE webPulls(under(kind), buf[r], n, ended[r])

\* GurtClient.responseReader()
responseReader ==
    /\ cur \notin rrs
    /\ rrs' = rrs \cup {cur}
    /\ last' = NoLast
    /\ UNCHANGED <<writerVars, failed, impl, wire, sent, ended, buf, cur, op, consumed,
                   phase, body>>

\* GurtClient.setSocket(socket) / GurtClient.setTransport(transport): a new
\* BufferedReader over the new transport; the old one and its listeners remain
setSocket ==
    /\ cur < MaxSwaps + 1
    /\ cur' = cur + 1
    /\ last' = NoLast
    /\ UNCHANGED <<writerVars, failed, impl, wire, sent, ended, buf, rrs, op, consumed,
                   phase, body>>

\* the read goes on waiting: nothing completes in this step
StillWaiting ==
    /\ last' = NoLast
    /\ UNCHANGED <<op, consumed, phase, body>>

\* the caller calls a ResponseReader method on the ResponseReader bound to reader r;
\* the method runs up to its first suspension
Call(r, kind, n) ==
    /\ op = NoOp
    /\ r \in rrs
    /\ IF waits(kind, r, n)
       THEN /\ op' = [kind |-> kind, rd |-> r, n |-> n, at |-> cur]
            /\ last' = NoLast
            /\ UNCHANGED <<buf, consumed, phase, body>>
       ELSE /\ Complete(kind, r, n, cur, buf[r])
            /\ op' = op
    /\ UNCHANGED <<writerVars, failed, impl, wire, sent, ended, cur, rrs>>

\* node: the socket of reader r emits 'data' with the next k bytes; push() appends
\* them and resumes the waiter, which re-evaluates its predicate
NodeData(r) ==
    \E k \in 1..(Len(wire[r]) - sent[r]) :
        /\ impl = "node"
        /\ r <= cur
        /\ ~failed[r]
        /\ sent' = [sent EXCEPT ![r] = @ + k]
        /\ LET b == buf[r] \o SubSeq(wire[r], sent[r] + 1, sent[r] + k)
           IN  IF /\ op.kind # "none"
                  /\ op.rd = r
                  /\ nodeReady(under(op.kind), b, op.n, ended[r])
               THEN /\ Complete(op.kind, r, op.n, op.at, b)
                    /\ op' = NoOp
               ELSE /\ buf' = [buf EXCEPT ![r] = b]
                    /\ StillWaiting
        /\ UNCHANGED <<writerVars, failed, impl, wire, ended, cur, rrs>>

\* node: the socket of reader r emits 'end'; push(empty) resumes the waiter
NodeEnd(r) ==
    /\ impl = "node"
    /\ r <= cur
    /\ sent[r] = Len(wire[r])
    /\ ~ended[r]
    /\ ~failed[r]
    /\ ended' = [ended EXCEPT ![r] = TRUE]
    /\ IF op.kind # "none" /\ op.rd = r /\ nodeReady(under(op.kind), buf[r], op.n, TRUE)
       THEN /\ Complete(op.kind, r, op.n, op.at, buf[r])
            /\ op' = NoOp
       ELSE /\ StillWaiting
            /\ UNCHANGED buf
    /\ UNCHANGED <<writerVars, failed, impl, wire, sent, cur, rrs>>

\* web: the reader.read() of #pullOne resolves with a chunk of k bytes (k = 0: an
\* empty chunk); readAvailable goes on, readExact and readUntilCRLF test their loop
WebChunk ==
    /\ impl = "web"
    /\ op.kind # "none"
    /\ ~failed[op.rd]
    /\ \E k \in 0..(Len(wire[op.rd]) - sent[op.rd]) :
        /\ sent' = [sent EXCEPT ![op.rd] = @ + k]
        /\ LET r == op.rd
               b == buf[r] \o SubSeq(wire[r], sent[r] + 1, sent[r] + k)
           IN  IF /\ under(op.kind) # "readAvailable"
                  /\ webPulls(under(op.kind), b, op.n, FALSE)
               THEN /\ buf' = [buf EXCEPT ![r] = b]
                    /\ StillWaiting
               ELSE /\ Complete(op.kind, r, op.n, op.at, b)
                    /\ op' = NoOp
    /\ UNCHANGED <<writerVars, failed, impl, wire, ended, cur, rrs>>

\* web: the reader.read() of #pullOne resolves with done
WebDone ==
    /\ impl = "web"
    /\ op.kind # "none"
    /\ sent[op.rd] = Len(wire[op.rd])
    /\ ~failed[op.rd]
    /\ ended' = [ended EXCEPT ![op.rd] = TRUE]
    /\ Complete(op.kind, op.rd, op.n, op.at, buf[op.rd])
    /\ op' = NoOp
    /\ UNCHANGED <<writerVars, failed, impl, wire, sent, cur, rrs>>

\* node: the socket of reader r emits 'error' (an I/O failure, a destroy(err)): the
\* BufferedReader listens to 'data' and 'end' only, so no resolver is called and
\* readableEnded stays false
NodeError(r) ==
    /\ impl = "node"
    /\ r <= cur
    /\ ~failed[r]
    /\ ~ended[r]
    /\ failed' = [failed EXCEPT ![r] = TRUE]
    /\ StillWaiting
    /\ UNCHANGED <<writerVars, impl, wire, sent, ended, buf, cur, rrs>>

\* web: the reader.read() of #pullOne rejects (the stream errored or was cancelled);
\* the rejection passes through #pullOne and the read to the caller
WebError ==
    /\ impl = "web"
    /\ op.kind # "none"
    /\ ~ended[op.rd]
    /\ failed' = [failed EXCEPT ![op.rd] = TRUE]
    /\ last' = [kind |-> op.kind, rd |-> op.rd, n |-> op.n, at |-> op.at,
                err |-> "TransportError", out |-> <<>>, was |-> buf[op.rd],
                had |-> buf[op.rd], val |-> NoValue]
    /\ phase' = [phase EXCEPT ![op.rd] = "Abandoned"]
    /\ op' = NoOp
    /\ UNCHANGED <<writerVars, impl, wire, sent, ended, buf, cur, rrs, consumed, body>>

\* the state of the reading side
readerVars == <<wire, sent, ended, failed, buf, cur, rrs, op, last, consumed, phase, body>>

\* the bytes of a sequence of chunks
RECURSIVE Flat(_)
Flat(chunks) == IF chunks = <<>> THEN <<>> ELSE Head(chunks) \o Flat(Tail(chunks))

\* what socket.write may return: false under back-pressure (node)
Oks == IF impl = "node" THEN BOOLEAN ELSE {TRUE}

\* a writing call runs on from a point where it is not suspended: it hands its next
\* chunk to transport t (and goes on while writeAll settles on return), or returns
\* when none is left; q and w are the queues and the flushed bytes at that point
Proceed(kind, args, issued, chunks, t, ok, q, w) ==
    LET now     == IF writeAllSettles(impl, ok, "returned") THEN chunks
                   ELSE SubSeq(chunks, 1, Min(1, Len(chunks)))
        rest    == SubSeq(chunks, Len(now) + 1, Len(chunks))
        all     == issued \o Flat(now)
        returns == rest = <<>> /\ (now = <<>> \/ writeAllSettles(impl, ok, "returned"))
    IN  /\ wq' = [q EXCEPT ![t] = @ \o now]
        /\ wrote' = w
        /\ IF returns
           THEN /\ wop' = NoWop
                /\ wlast' = [kind |-> kind, args |-> args, err |-> "", issued |-> all,
                             segs |-> <<>>, at |-> t]
                /\ shaken' = [u \in Transports |->
                                 shaken[u] \/ (kind = "handshake" /\ w[u] = all)]
                /\ bw' = IF kind = "requestWithBody" THEN cur ELSE bw
           ELSE /\ wop' = [kind |-> kind, args |-> args, issued |-> all, segs |-> rest,
                            at |-> t, ok |-> ok]
                /\ wlast' = NoWlast
                /\ UNCHANGED <<shaken, bw>>

\* the caller calls a writing method: it runs up to its first suspension
Begin(kind, args, chunks, t) ==
    /\ wop = NoWop
    /\ \E ok \in Oks :
          Proceed(kind, args, <<>>, chunks, t, ok, wq, [u \in Transports |-> <<>>])
    /\ UNCHANGED <<wfailed, impl, readerVars>>

\* the strings of a frame as the chunks the transport is given
Chunks(strings) == [i \in 1..Len(strings) |-> encode(strings[i])]

HandshakeCall ==
    \E host \in Hosts, ua \in UserAgents :
        Begin("handshake", Args(HANDSHAKE, <<47>>, host, Some(ua), 0, None),
              Chunks(handshake(host, ua)), cur)

RequestNoBodyCall ==
    \E method \in Methods, path \in Paths, host \in Hosts, ua \in OptUserAgents :
        Begin("requestNoBody", Args(method, path, host, ua, 0, None),
              Chunks(requestNoBody(method, path, host, ua)), cur)

RequestWithBodyCall ==
    \E method \in Methods, path \in Paths, host \in Hosts, n \in ContentLengths,
       ua \in OptUserAgents, ct \in OptContentTypes :
        Begin("requestWithBody", Args(method, path, host, ua, n, ct),
              Chunks(requestWithBody(method, path, host, n, ua, ct)), cur)

\* RequestBodyWriter.write(data) on the writer requestWithBody returned last
BodyWriteCall ==
    \E data \in BodyData :
        /\ bw # 0
        /\ Begin("write", NoArgs, <<data>>, bw)

\* transport t has written its oldest queued chunk out: node emits 'drain' when a
\* write had returned false and the queue is empty, then runs the callback of the
\* write; web resolves the promise of writer.write.  The call awaiting it runs on
Flush(t) ==
    /\ wq[t] # <<>>
    /\ ~wfailed[t]
    /\ LET q   == [wq EXCEPT ![t] = Tail(@)]
           w   == [wrote EXCEPT ![t] = @ \o Head(wq[t])]
           evs == {"callback"} \cup (IF q[t] = <<>> /\ ~wop.ok THEN {"drain"} ELSE {})
       IN  IF /\ wop.kind # "none"
              /\ wop.at = t
              /\ \E ev \in evs : writeAllSettles(impl, wop.ok, ev)
           THEN \E ok \in Oks :
                    Proceed(wop.kind, wop.args, wop.issued, wop.segs,
                            IF wop.segs = <<>> THEN t
                            ELSE IF wop.kind = "write" THEN bw ELSE cur, ok, q, w)
           ELSE /\ wq' = q
                /\ wrote' = w
                /\ wlast' = NoWlast
                /\ UNCHANGED <<wop, shaken, bw>>
    /\ UNCHANGED <<wfailed, impl, readerVars>>

\* transport t reports a write error: the chunks it holds are never written; node
\* runs the callback of the write with the error, web rejects writer.write
WriteFail(t) ==
    /\ wq[t] # <<>>
    /\ wfailed' = [wfailed EXCEPT ![t] = TRUE]
    /\ wq' = [wq EXCEPT ![t] = <<>>]
    /\ IF wop.kind # "none" /\ wop.at = t /\ writeAllSettles(impl, wop.ok, "error")
       THEN /\ wop' = NoWop
            /\ wlast' = [kind |-> wop.kind, args |-> wop.args, err |-> "TransportError",
                         issued |-> wop.issued, segs |-> wop.segs, at |-> t]
       ELSE /\ wlast' = NoWlast
            /\ UNCHANGED wop
    /\ UNCHANGED <<wrote, shaken, bw, impl, readerVars>>

\* what happens at the caller of the writing side and on the transports' write sides
WriterNext ==
    \/ HandshakeCall
    \/ RequestNoBodyCall
    \/ RequestWithBodyCall
    \/ BodyWriteCall
    \/ \E t \in Transports : Flush(t)
    \/ \E t \in Transports : WriteFail(t)

\* what happens on the transports and at the caller while the binding stays
ReaderNext ==
    \/ responseReader
    \/ \E r \in Transports, kind \in Kinds, n \in 0..MaxN :
          /\ (kind \in {"readStatusLine", "readHeader"} => n = 0)
          /\ Call(r, kind, n)
    \/ \E r \in Transports : NodeData(r)
    \/ \E r \in Transports : NodeEnd(r)
    \/ WebChunk
    \/ WebDone

\* the transports may fail as well
FaultNext ==
    \/ ReaderNext
    \/ \E r \in Transports : NodeError(r)
    \/ WebError

Next == ReaderNext \/ setSocket

\* the client writes while the caller may replace the transport
SwapWriterNext == WriterNext \/ setSocket

\* one transport for the life of the client, every short byte sequence on it
Spec == Init /\ [][ReaderNext]_vars

\* one transport, carrying a response
SpecResponse == InitResponse /\ [][ReaderNext]_vars

\* the transport is replaced at run time
SpecSwap == InitSwap /\ [][Next]_vars

\* one transport, carrying a status line
SpecStatus == InitStatus /\ [][ReaderNext]_vars

\* one transport, carrying a header line
SpecHeader == InitHeader /\ [][ReaderNext]_vars

\* one transport, the client writing frames and bodies to it
SpecWrite == InitWrite /\ [][WriterNext]_vars

\* the client writing frames and bodies, the transport replaced at run time
SpecWriteSwap == InitWrite /\ [][SwapWriterNext]_vars

\* one transport, which may report an error at any moment
SpecFault == Init /\ [][FaultNext]_vars

----------------------------------------------------------------------------
(* Properties *)

LineKinds == {"readStatusLine", "readHeader"}

\* the configured maximum of pending bytes: MaxLine, and never more than MAX_MESSAGE_SIZE
LineLimit == Min(MaxLine, MAX_MESSAGE_SIZE)

\* the bytes reader r had returned before the read reported in `last`
Before == SubSeq(consumed[last.rd], 1, Len(consumed[last.rd]) - Len(last.out))

\* what transport t has still to hand to a caller that has taken the bytes `taken`
Remaining(t, taken) == SubSeq(wire[t], Len(taken) + 1, Len(wire[t]))

\* whether s holds a CR LF pair, and the length of its shortest prefix ending in one
HasLine(s) == \E k \in 2..Len(s) : s[k - 1] = CR /\ s[k] = LF

LineLength(s) ==
    CHOOSE k \in 2..Len(s) :
        /\ s[k - 1] = CR /\ s[k] = LF
        /\ \A j \in 2..(k - 1) : ~(s[j - 1] = CR /\ s[j] = LF)

\* C1: once end-of-stream has been signalled on a stream whose unread part holds no
\* CRLF, no readUntilCRLF (readStatusLine, readHeader) stays suspended, and one that
\* completes fails with 'Unexpected EOF', whether or not bytes are pending.
C1_LineReadFailsAtEOF ==
    /\ ~(op.kind \in LineKinds /\ ended[op.rd])
    /\ (last.kind \in LineKinds /\ ended[last.rd] /\ ~HasLine(last.had))
          => last.err = "Unexpected EOF"

\* C2: once end-of-stream has been signalled with fewer than n bytes left, no
\* readExact(n) (readBodyExact) stays suspended; it fails with 'Unexpected EOF' and
\* never returns fewer than n bytes.
C2_ExactReadFailsAtEOF ==
    /\ ~(op.kind = "readBodyExact" /\ ended[op.rd])
    /\ (last.kind = "readBodyExact" /\ ended[last.rd] /\ Len(last.had) < last.n)
          => last.err = "Unexpected EOF"
    /\ (last.kind = "readBodyExact" /\ last.err = "") => Len(last.out) = last.n

\* C3: when the unread part of the stream holds a CRLF, readUntilCRLF returns the
\* bytes up to and including the first one, however the transport cut the stream
\* into chunks, and does not go on waiting once the delimiter is pending.
C3_LineChunkingInvariant ==
    /\ (last.kind \in LineKinds /\ HasLine(Remaining(last.rd, Before)))
          => /\ last.err # "Unexpected EOF"
             /\ last.out = SubSeq(Remaining(last.rd, Before), 1,
                                  LineLength(Remaining(last.rd, Before)))
    /\ ~(op.kind \in LineKinds /\ HasLine(buf[op.rd]))

\* C3 witness: a line read completed on a delimiter that arrived split, the CR at the
\* end of one chunk and the LF at the head of the next.
C3_Witness ==
    /\ last.kind \in LineKinds
    /\ last.err # "Unexpected EOF"
    /\ last.was # <<>>
    /\ last.was[Len(last.was)] = CR
    /\ ~HasLine(last.was)
    /\ Len(last.out) = Len(last.was) + 1
    /\ Len(last.out) > 2

\* C4: when at least n bytes of the stream are unread, readExact(n) returns the first
\* n of them, however the transport cut the stream into chunks, and does not go on
\* waiting once n bytes are pending.
C4_ExactChunkingInvariant ==
    /\ (last.kind = "readBodyExact" /\ Len(Remaining(last.rd, Before)) >= last.n)
          => /\ last.err = ""
             /\ last.out = SubSeq(Remaining(last.rd, Before), 1, last.n)
    /\ ~(op.kind = "readBodyExact" /\ Len(buf[op.rd]) >= op.n)

\* C4 witness: a readExact(n), n > 1, completed on bytes that arrived in more than
\* one chunk.
C4_Witness ==
    /\ last.kind = "readBodyExact"
    /\ last.err = ""
    /\ last.n > 1
    /\ last.was # <<>>
    /\ Len(last.was) < last.n
    /\ last.out = SubSeq(wire[last.rd], 1, last.n)

\* C5: a successful readExact(n) returns exactly n bytes and leaves the bytes pulled
\* beyond them pending, in order; every read returns the head of what is pending, and
\* the bytes returned so far followed by the pending buffer are the bytes received.
C5_SurplusRetained ==
    /\ (last.kind = "readBodyExact" /\ last.err = "")
          => /\ Len(last.out) = last.n
             /\ last.out \o buf[last.rd] = last.had
    /\ last.kind # "none" => IsPrefix(last.was, last.had) /\ IsPrefix(last.out, last.had)
    /\ \A t \in Transports : consumed[t] \o buf[t] = received(t)

\* C5 witness: a readExact(n) succeeded with more than n bytes pulled.
C5_Witness ==
    /\ last.kind = "readBodyExact"
    /\ last.err = ""
    /\ last.n > 0
    /\ Len(last.had) > last.n
    /\ buf[last.rd] # <<>>

\* whether a CR LF pair of w ends at position k (1-based, the position of the LF)
EndsLine(w, k) == k >= 2 /\ k <= Len(w) /\ w[k - 1] = CR /\ w[k] = LF

\* whether w holds a blank line after its first line, and where the first such ends
HasHeaderEnd(w) == \E k \in 4..Len(w) : EndsLine(w, k) /\ EndsLine(w, k - 2)

HeaderEnd(w) ==
    CHOOSE k \in 4..Len(w) :
        /\ EndsLine(w, k) /\ EndsLine(w, k - 2)
        /\ \A j \in 4..(k - 1) : ~(EndsLine(w, j) /\ EndsLine(w, j - 2))

\* C6: once readStatusLine and then readHeader up to its null have succeeded, the
\* body reads deliver exactly the bytes that follow the blank line, each once and in
\* order: the bytes they returned, followed by the pending buffer, are the bytes
\* received after the blank line, whatever the chunks were.
C6_BodyAfterHeaders ==
    \A t \in Transports :
        phase[t] = "BodyReady" =>
            /\ HasHeaderEnd(wire[t])
            /\ consumed[t] = SubSeq(wire[t], 1, HeaderEnd(wire[t])) \o body[t]
            /\ body[t] \o buf[t] = SubSeq(wire[t], HeaderEnd(wire[t]) + 1, sent[t])

\* C6 witness: the web reader serves a first body read from bytes that the reads of
\* the status line and the headers had pulled with them.
C6_Witness ==
    /\ impl = "web"
    /\ last.kind = "readBody"
    /\ phase[last.rd] = "BodyReady"
    /\ last.was = last.had
    /\ Len(last.out) > 1
    /\ body[last.rd] = last.out

\* C7: a readUntilCRLF does not go on buffering once more than the configured maximum
\* of bytes is pending without a CRLF: it has failed with a line-too-long error.
C7_LineTooLong ==
    /\ ~(op.kind \in LineKinds /\ ~HasLine(buf[op.rd]) /\ Len(buf[op.rd]) > LineLimit)
    /\ (last.kind \in LineKinds /\ Len(last.had) > LineLimit
            /\ ~HasLine(SubSeq(last.had, 1, LineLimit + 1)))
          => last.err = "Line too long"

\* C8: the pending buffer of a reader never holds more than the configured maximum.
C8_PendingBufferBounded ==
    \A t \in Transports : Len(buf[t]) <= LineLimit

\* C9: a read issued after setSocket / setTransport returned delivers no byte of the
\* transport bound before: the reader that serves it is the one bound when it was issued.
C9_NoStaleBytesAfterSwap ==
    (last.kind # "none" /\ last.out # <<>>) => last.rd = last.at

\* C10: on a stream of k < L bytes, readBody with a buffer of L bytes never throws,
\* never stays suspended after end-of-stream, and returns 0 only when end-of-stream
\* has been signalled and all k bytes have been returned.
C10_ReadBodyUntilEOF ==
    /\ ~(op.kind = "readBody" /\ ended[op.rd])
    /\ (last.kind = "readBody" /\ last.n > Len(wire[last.rd]))
          => /\ last.err = ""
             /\ IsPrefix(consumed[last.rd], wire[last.rd])
             /\ last.out = <<>> => (ended[last.rd] /\ consumed[last.rd] = wire[last.rd])

\* C11: a readAvailable(maxN) with maxN > 0 (readBody on a buffer of maxN bytes)
\* returns at most maxN bytes, and returns none only when the transport has signalled
\* end-of-stream: while the stream is open, an empty chunk included, its result is
\* not empty.
C11_AvailableEmptyOnlyAtEOF ==
    (last.kind = "readBody" /\ last.n > 0)
        => /\ Len(last.out) <= last.n
           /\ last.out = <<>> => ended[last.rd]

\* C12: when the transport reports an error while a read is in progress, the read
\* settles in that step and fails with the transport's error: it neither stays
\* suspended nor completes successfully.
C12_TransportErrorPropagates ==
    [][(op.kind # "none" /\ ~failed[op.rd] /\ failed'[op.rd])
          => (op' = NoOp /\ last'.kind = op.kind /\ last'.err = "TransportError")]_vars

\* the bytes of the line the read reported in `last` returned, without its CR LF
LineBytes == SubSeq(last.out, 1, Len(last.out) - 2)

\* the pieces of s between its space bytes, in order
RECURSIVE Tokens(_)
Tokens(s) ==
    IF \A i \in 1..Len(s) : s[i] # SP THEN <<s>>
    ELSE LET i == CHOOSE j \in 1..Len(s) : s[j] = SP /\ \A k \in 1..(j - 1) : s[k] # SP
         IN  <<SubSeq(s, 1, i - 1)>> \o Tokens(SubSeq(s, i + 1, Len(s)))

\* whether tok is a decimal numeral, and the number it writes
IsNumeral(tok) == tok # <<>> /\ \A i \in 1..Len(tok) : tok[i] \in 48..57

RECURSIVE NumeralValue(_)
NumeralValue(tok) ==
    IF tok = <<>> THEN 0
    ELSE (tok[Len(tok)] - 48) + 10 * NumeralValue(SubSeq(tok, 1, Len(tok) - 1))

\* C19: a readStatusLine that got its line fails with 'Invalid protocol' exactly when
\* the first space-separated token of the line is not the ten bytes 'GURT/1.0.0'.
C19_InvalidProtocol ==
    (last.kind = "readStatusLine" /\ last.err # "Unexpected EOF")
        => (last.err = "Invalid protocol" <=> Tokens(LineBytes)[1] # GURT_VERSION)

\* C20: a readStatusLine whose line passed the version check fails with 'Invalid
\* status code' whenever the second space-separated token is missing or is not a
\* non-negative decimal integer ('-1' and '200abc' included), and otherwise returns
\* the value of that token.
C20_InvalidStatusCode ==
    (last.kind = "readStatusLine" /\ last.err \notin {"Unexpected EOF", "Invalid protocol"})
        => LET toks == Tokens(LineBytes)
           IN  IF Len(toks) >= 2 /\ IsNumeral(toks[2])
               THEN last.err = "" /\ last.val.status = NumeralValue(toks[2])
               ELSE last.err = "Invalid status code"

\* the bytes of the lines `lines`, each followed by CR LF
RECURSIVE WithCRLF(_)
WithCRLF(lines) ==
    IF lines = <<>> THEN <<>> ELSE Head(lines) \o <<13, 10>> \o WithCRLF(Tail(lines))

\* the decimal numeral of a natural number
RECURSIVE Decimal(_)
Decimal(n) == (IF n >= 10 THEN Decimal(n \div 10) ELSE <<>>) \o <<48 + (n % 10)>>

\* the user agent a request names: the one given, 'yo-gurt/0.1' when none is given
AgentOf(a) ==
    IF a.userAgent.given THEN a.userAgent.s
    ELSE <<121, 111, 45, 103, 117, 114, 116, 47, 48, 46, 49>>

\* the first line of a request: method, path, 'GURT/1.0.0'
RequestLine(a) == a.method \o <<32>> \o a.path \o <<32, 71, 85, 82, 84, 47, 49, 46, 48, 46, 48>>

\* the frames as the claims spell them
ExpectedHandshake(a) ==
    WithCRLF(<< <<72, 65, 78, 68, 83, 72, 65, 75, 69, 32, 47, 32,
                  71, 85, 82, 84, 47, 49, 46, 48, 46, 48>>,
                HostColon \o a.host, UserAgentColon \o a.userAgent.s, <<>> >>)

ExpectedNoBody(a) ==
    WithCRLF(<< RequestLine(a), HostColon \o a.host, UserAgentColon \o AgentOf(a), <<>> >>)

ExpectedWithBody(a) ==
    WithCRLF(<< RequestLine(a), HostColon \o a.host >>
             \o (IF a.contentType.given THEN << ContentTypeColon \o a.contentType.s >>
                 ELSE << >>)
             \o << ContentLengthColon \o Decimal(a.contentLength),
                   UserAgentColon \o AgentOf(a), <<>> >>)

\* requestNoBody(GET, '/api/data', 'example.com')
ExampleArgs ==
    Args(<<71, 69, 84>>, <<47, 97, 112, 105, 47, 100, 97, 116, 97>>,
         <<101, 120, 97, 109, 112, 108, 101, 46, 99, 111, 109>>, None, 0, None)

\* 'GET /api/data GURT/1.0.0\r\nhost: example.com\r\nuser-agent: yo-gurt/0.1\r\n\r\n'
ExampleBytes ==
    <<71, 69, 84, 32, 47, 97, 112, 105, 47, 100, 97, 116, 97, 32, 71, 85, 82, 84,
       47, 49, 46, 48, 46, 48, 13, 10, 104, 111, 115, 116, 58, 32, 101, 120, 97, 109,
       112, 108, 101, 46, 99, 111, 109, 13, 10, 117, 115, 101, 114, 45, 97, 103, 101,
       110, 116, 58, 32, 121, 111, 45, 103, 117, 114, 116, 47, 48, 46, 49, 13, 10,
       13, 10>>

RequestKinds == {"requestNoBody", "requestWithBody"}

\* C13: no transport is handed a byte of a requestNoBody or requestWithBody frame
\* before a handshake frame has been written to it in full.
C13_HandshakeFirst ==
    /\ wop.kind \in RequestKinds => shaken[wop.at]
    /\ wlast.kind \in RequestKinds => shaken[wlast.at]

\* C15: handshake(host, userAgent) writes 'HANDSHAKE / GURT/1.0.0' CRLF, 'host: <host>'
\* CRLF, 'user-agent: <userAgent>' CRLF, CRLF to the transport and nothing else; while
\* it runs exactly one of these lines is in flight, everything before it is flushed.
C15_HandshakeBytes ==
    /\ (wlast.kind = "handshake" /\ wlast.err = "")
          => /\ wrote[wlast.at] = ExpectedHandshake(wlast.args)
             /\ \A t \in Transports : wq[t] = <<>> /\ (t # wlast.at => wrote[t] = <<>>)
    /\ wop.kind = "handshake"
          => /\ Len(wq[wop.at]) = 1
             /\ wrote[wop.at] \o wq[wop.at][1] = wop.issued
             /\ IsPrefix(wop.issued, ExpectedHandshake(wop.args))
             /\ HasLine(wq[wop.at][1])
             /\ LineLength(wq[wop.at][1]) = Len(wq[wop.at][1])

\* C15 witness: a handshake for 'example.com' has returned, its frame on the wire.
C15_Witness ==
    /\ wlast.kind = "handshake"
    /\ wlast.err = ""
    /\ wlast.args.host = ExampleArgs.host
    /\ wlast.args.userAgent.s # <<>>
    /\ Len(wrote[wlast.at]) > 40

\* C16: requestNoBody(method, path, host, userAgent?) writes byte for byte
\* '<METHOD> <path> GURT/1.0.0' CRLF 'host: <host>' CRLF 'user-agent: <ua>' CRLF CRLF,
\* <ua> being the user agent given or 'yo-gurt/0.1' when it is omitted; for GET,
\* '/api/data', 'example.com' these are the bytes of the example.
C16_RequestNoBodyBytes ==
    (wlast.kind = "requestNoBody" /\ wlast.err = "")
        => /\ wrote[wlast.at] = ExpectedNoBody(wlast.args)
           /\ wlast.args = ExampleArgs => wrote[wlast.at] = ExampleBytes

\* C16 witness: requestNoBody(GET, '/api/data', 'example.com') has returned.
C16_Witness ==
    /\ wlast.kind = "requestNoBody"
    /\ wlast.err = ""
    /\ wlast.args = ExampleArgs
    /\ wrote[wlast.at] # <<>>

\* C17: requestWithBody writes the request line, 'host', 'content-type' if and only if
\* a contentType argument was given, 'content-length: <contentLength>', 'user-agent'
\* and the blank line, in that order, whatever optional arguments are given, and
\* returns the body writer only once all of them are written.
C17_HeaderOrder ==
    /\ (wlast.kind = "requestWithBody" /\ wlast.err = "")
          => /\ wrote[wlast.at] = ExpectedWithBody(wlast.args)
             /\ wq[wlast.at] = <<>>
             /\ bw = wlast.at
    /\ wop.kind = "requestWithBody" => IsPrefix(wop.issued, ExpectedWithBody(wop.args))

\* what C18 says of a state: a writing call that returned has all its bytes flushed;
\* while one is suspended, the bytes it issued are those flushed and those queued;
\* a call fails with the transport's error only when the transport reported one
C18_Flushed ==
    /\ (wlast.kind # "none" /\ wlast.err = "")
          => wq[wlast.at] = <<>> /\ wrote[wlast.at] = wlast.issued
    /\ wop.kind # "none" => wrote[wop.at] \o Flat(wq[wop.at]) = wop.issued
    /\ wlast.err = "TransportError" => wfailed[wlast.at]

\* what C18 says of a step: when the transport of the awaited write reports an error,
\* the call settles in that step and fails with it
C18_ErrorDelivered ==
    (wop.kind # "none" /\ wq[wop.at] # <<>> /\ wfailed'[wop.at])
        => (wop' = NoWop /\ wlast'.kind = wop.kind /\ wlast'.err = "TransportError")

\* C18: a write the transport cannot take at once keeps the caller suspended until
\* its bytes are flushed; no write completes with bytes unflushed, none are dropped,
\* and a write error of the transport reaches the caller as a failure.
C18_BackPressure == []C18_Flushed /\ [][C18_ErrorDelivered]_vars

\* C18 witness: a call is suspended on a chunk for which socket.write returned false,
\* the chunks before it flushed.
C18_Witness ==
    /\ wop.kind # "none"
    /\ ~wop.ok
    /\ wrote[wop.at] # <<>>
    /\ Len(wq[wop.at]) = 1

\* C14: a ResponseReader method called out of the order status line, headers up to
\* the null, body (a second readStatusLine, a readHeader before the status line or
\* after the null, a body read before the null) does not succeed in consuming bytes
\* of the stream.
C14_StateMachineFailsFast ==
    (last.kind # "none" /\ phase[last.rd] = "Abandoned")
        => ~(last.err = "" /\ last.out # <<>>)

\* the white space of a line of ASCII, and s without the white space at its two ends
Blank(c) == c \in {9, 10, 11, 12, 13, 32}

RECURSIVE Strip(_)
Strip(s) ==
    IF s = <<>> THEN s
    ELSE IF Blank(s[1]) THEN Strip(Tail(s))
    ELSE IF Blank(s[Len(s)]) THEN Strip(SubSeq(s, 1, Len(s) - 1))
    ELSE s

\* s with its capital letters A..Z made small
Lower(s) == [i \in 1..Len(s) |-> IF s[i] \in 65..90 THEN s[i] + 32 ELSE s[i]]

\* whether every byte of s is 7-bit ASCII, so that s is its own text
IsAscii(s) == \A i \in 1..Len(s) : s[i] < 128

HasColon(s) == \E i \in 1..Len(s) : s[i] = COLON

FirstColon(s) == CHOOSE i \in 1..Len(s) : s[i] = COLON /\ \A j \in 1..(i - 1) : s[j] # COLON

\* C21: a readHeader whose line holds a colon returns a header split at the first
\* colon of the line: the name is the part before it, trimmed and in lowercase, the
\* value the part after it, later colons included, trimmed (each part compared
\* where it is 7-bit ASCII).
C21_FirstColonSplit ==
    (last.kind = "readHeader" /\ last.err # "Unexpected EOF" /\ HasColon(LineBytes))
        => LET i  == FirstColon(LineBytes)
               nm == SubSeq(LineBytes, 1, i - 1)
               vl == SubSeq(LineBytes, i + 1, Len(LineBytes))
           IN  /\ last.err = ""
               /\ ~last.val.null
               /\ IsAscii(nm) => last.val.name = Lower(Strip(nm))
               /\ IsAscii(vl) => last.val.value = Strip(vl)

\* C22: a readHeader that got its line returns null exactly when the line is the two
\* bytes CR LF; when the first line of a response is followed at once by CR LF, the
\* readHeader issued after that first line was read returns null and has taken
\* exactly those two bytes.
C22_NullOnlyOnBlankLine ==
    (last.kind = "readHeader" /\ last.err # "Unexpected EOF")
        => /\ last.val.null <=> last.out = CRLF
           /\ last.val.null => last.err = ""
           /\ (HasLine(wire[last.rd]) /\ Len(Before) = LineLength(wire[last.rd])
                  /\ IsPrefix(CRLF, Remaining(last.rd, Before)))
                 => /\ last.val.null
                    /\ consumed[last.rd] = Before \o CRLF

\* C22 witness: after readStatusLine succeeded on 'GURT/1.0.0 7', the first readHeader
\* returned null on the CR LF that follows and left nothing pending.
C22_Witness ==
    /\ last.kind = "readHeader"
    /\ last.err = ""
    /\ last.val.null
    /\ phase[last.rd] = "BodyReady"
    /\ Before = GURT_VERSION \o <<SP, 55>> \o CRLF
    /\ consumed[last.rd] = RespNoBody

\* C23: a readHeader whose line is not empty and holds no colon fails with 'Invalid
\* header'; it returns neither a header nor null.
C23_MalformedHeader ==
    (last.kind = "readHeader" /\ last.err # "Unexpected EOF"
        /\ LineBytes # <<>> /\ ~HasColon(LineBytes))
        => last.err = "Invalid header"

\* whether the node reader, and the web reader, would leave a read of `kind` for n
\* bytes suspended on the pending buffer b with end-of-stream signalled (e) or not
NodeSuspends(kind, b, n, e) == ~nodeReady(under(kind), b, n, e)

WebSuspends(kind, b, n, e) == webPulls(under(kind), b, n, e)

\* C24: the node reader and the web reader settle the same reads: a read that is
\* suspended on some pending buffer and end-of-stream flag is one that both readers
\* leave suspended there, and a read that settled did so on a buffer and flag on
\* which neither reader would have gone on waiting.
C24_ReadersAgree ==
    /\ op.kind # "none"
          => /\ NodeSuspends(op.kind, buf[op.rd], op.n, ended[op.rd])
             /\ WebSuspends(op.kind, buf[op.rd], op.n, ended[op.rd])
    /\ last.kind # "none"
          => /\ ~NodeSuspends(last.kind, last.had, last.n, ended[last.rd])
             /\ ~WebSuspends(last.kind, last.had, last.n, ended[last.rd])

\* C25: on every reader, the bytes its reads have returned so far, in the order the
\* reads completed, followed by its pending buffer are the bytes its transport has
\* delivered so far; a read splits what was pending into its result and the new
\* pending buffer, and a read that failed returned nothing and left the buffer as it was.
C25_ByteConservation ==
    /\ \A t \in Transports :
          /\ Len(consumed[t]) + Len(buf[t]) = sent[t]
          /\ consumed[t] \o buf[t] = SubSeq(wire[t], 1, sent[t])
    /\ last.kind # "none" => last.out \o buf[last.rd] = last.had
    /\ (last.kind # "none" /\ last.err = "Unexpected EOF")
          => (last.out = <<>> /\ buf[last.rd] = last.had)

\* C25 witness: a read returned bytes after an earlier read had returned bytes, and
\* bytes are still pending behind them.
C25_Witness ==
    /\ last.kind # "none"
    /\ last.out # <<>>
    /\ Before # <<>>
    /\ buf[last.rd] # <<>>

\* C26: the line a readUntilCRLF (readStatusLine, readHeader) returned is at least
\* two bytes long, ends with CR LF and holds no CR LF before that; a CR or an LF on
\* its own is part of the line.  The bytesRead / totalBytes that readStatusLine and
\* readHeader report is the length of the line, its CR LF included.
C26_LineShape ==
    (last.kind \in LineKinds /\ last.err # "Unexpected EOF")
        => /\ Len(last.out) >= 2
           /\ last.out[Len(last.out) - 1] = CR
           /\ last.out[Len(last.out)] = LF
           /\ \A k \in 2..(Len(last.out) - 1) : ~(last.out[k - 1] = CR /\ last.out[k] = LF)
           /\ (last.err = "" /\ ~last.val.null) => last.val.bytes = Len(last.out)

\* C26 witness: readHeader returned a header from a line that holds a CR not followed
\* by LF and an LF not preceded by CR, and reported the length of the whole line.
C26_Witness ==
    /\ last.kind = "readHeader"
    /\ last.err = ""
    /\ ~last.val.null
    /\ \E i \in 1..(Len(last.out) - 2) : last.out[i] = CR /\ last.out[i + 1] # LF
    /\ \E i \in 2..(Len(last.out) - 2) : last.out[i] = LF /\ last.out[i - 1] # CR
    /\ last.val.bytes = Len(last.out)
    /\ last.val.bytes > 2

\* the calls that write a frame
FrameKinds == {"handshake", "requestNoBody", "requestWithBody"}

\* the transports that hold bytes of the writing call in hand or just settled,
\* written out or still queued
Carriers == {t \in Transports : wrote[t] # <<>> \/ wq[t] # <<>>}

\* C27: the segments of one frame all go to one transport: while a handshake,
\* requestNoBody or requestWithBody call is in progress, and when it has returned, no
\* two transports hold bytes of it, setSocket / setTransport between two of its
\* writes or not.
C27_FrameOnOneTransport ==
    (wop.kind \in FrameKinds \/ wlast.kind \in FrameKinds) => Cardinality(Carriers) <= 1

\* the reads that can fail on a truncated stream
StrictKinds == {"readStatusLine", "readHeader", "readBodyExact"}

\* a readExact or readUntilCRLF that failed with 'Unexpected EOF' returned nothing and
\* left the pending buffer as it found it
C28_Kept ==
    (last.kind \in StrictKinds /\ last.err = "Unexpected EOF")
        => /\ last.out = <<>>
           /\ buf[last.rd] = last.had
           /\ IsPrefix(last.was, buf[last.rd])

\* on a stream that has ended, a readAvailable(n), n > 0, returns the first n pending
\* bytes, or all of them when they are fewer, and nothing only when none is pending
C28_Drained ==
    (last.kind = "readBody" /\ ended[last.rd] /\ last.n > 0)
        => /\ last.out = SubSeq(last.was, 1, Min(last.n, Len(last.was)))
           /\ last.out \o buf[last.rd] = last.was
           /\ last.out = <<>> => last.was = <<>>

\* the readAvailable that follows a failed read returns the head of the bytes that
\* read left pending
C28_Next ==
    (/\ last.kind \in StrictKinds
     /\ last.err = "Unexpected EOF"
     /\ last'.kind = "readBody"
     /\ last'.rd = last.rd
     /\ last'.n > 0)
        => /\ last'.out = SubSeq(buf[last.rd], 1, Min(last'.n, Len(buf[last.rd])))
           /\ last'.out = <<>> => buf[last.rd] = <<>>

\* C28: a readExact or readUntilCRLF that fails with 'Unexpected EOF' leaves the
\* pending buffer unchanged, and the readAvailable calls that follow return the bytes
\* left there, in order, before one of them returns 0.
C28_TruncatedReadKeepsBuffer == [](C28_Kept /\ C28_Drained) /\ [][C28_Next]_vars

\* C28 witness: a read failed with 'Unexpected EOF' while bytes were pending, and they
\* are pending still.
C28_Witness ==
    /\ last.kind \in StrictKinds
    /\ last.err = "Unexpected EOF"
    /\ last.had # <<>>
    /\ buf[last.rd] = last.had

\* the errors of a line that arrived whole but does not parse
ParseErrors == {"Invalid protocol", "Invalid status code", "Invalid header"}

\* a readStatusLine or readHeader that failed with a parse error has taken the first
\* unread line, its CR LF included, and nothing else: what was received beyond the
\* line is pending
C29_Consumed ==
    (last.kind \in LineKinds /\ last.err \in ParseErrors)
        => LET rest == Remaining(last.rd, Before)
           IN  /\ HasLine(rest)
               /\ last.out = SubSeq(rest, 1, LineLength(rest))
               /\ consumed[last.rd] = Before \o last.out
               /\ buf[last.rd] = SubSeq(wire[last.rd], Len(consumed[last.rd]) + 1,
                                        sent[last.rd])

\* the read that completes next on that reader returns bytes that begin right after
\* the CR LF of the line
C29_Next ==
    (/\ last.kind \in LineKinds
     /\ last.err \in ParseErrors
     /\ last'.kind # "none"
     /\ last'.rd = last.rd)
        => IsPrefix(last'.out, Remaining(last.rd, consumed[last.rd]))

\* C29: when readStatusLine or readHeader fails with 'Invalid protocol', 'Invalid
\* status code' or 'Invalid header', the line it rejected has been consumed, CR LF
\* included, and no byte beyond it; the next read starts at the byte after the CR LF.
C29_ParseErrorConsumesLine == []C29_Consumed /\ [][C29_Next]_vars

\* C29 witness: readStatusLine failed with 'Invalid status code' on 'GURT/1.0.0 x'
\* while the byte behind the line was pending already, and it is pending still.
C29_Witness ==
    /\ last.kind = "readStatusLine"
    /\ last.err = "Invalid status code"
    /\ last.out = GURT_VERSION \o <<SP, 120>> \o CRLF
    /\ buf[last.rd] = <<121>>

====
